---- MODULE Spec2Model ----
(***************************************************************************)
(* notethisurl: a command-line bookmark tool.  One invocation of main()   *)
(* is a process that walks through initialize_config, load_config,        *)
(* load_bookmarks and the command's branch (add / tags / urls), or        *)
(* through the forced initialize_config of setup.  The files under        *)
(* CONFIG_DIR and the file of the GitHub repository are shared state.     *)
(***************************************************************************)
EXTENDS Integers, Sequences, FiniteSets, TLC

VARIABLES
    fs,      \* the files under CONFIG_DIR: name -> [kind, val]
    remote,  \* the files of the GitHub repository: name -> [kind, val]
    proc,    \* one record per invocation of main(): its position and locals
    clock,   \* datetime.now(timezone.utc), as a logical instant
    runs     \* number of invocations started so far

vars == <<fs, remote, proc, clock, runs>>

(* ------------------------------------------------------------------ *)
(* Bounds of the model                                                  *)
(* ------------------------------------------------------------------ *)
MaxRuns == 2        \* invocations in one behaviour
MaxTagLen == 3      \* characters of a --tags string in the list_tags check
MaxBookmarks == 2   \* bookmarks of a collection in the list_tags check

(* ------------------------------------------------------------------ *)
(* Constants of the program                                             *)
(* ------------------------------------------------------------------ *)
CONFIG_FILE == "config.json"
DEFAULT_FILENAME == "bookmarks.json"
DEFAULT_TIMEZONE == "UTC"

\* names a file under CONFIG_DIR can have in the model; FILENAME is free
\* text, so it can also name the config file itself
FileNames == {CONFIG_FILE, DEFAULT_FILENAME, "alt.json"}

\* the keys a config dict can hold: the four of the tool and a foreign one
ConfigKeys == {"GITHUB_TOKEN", "GITHUB_REPO", "FILENAME", "TIMEZONE", "EDITOR"}

\* timezone names pytz.timezone resolves
KnownTimezones == {"UTC", "Asia/Kolkata"}

Procs == {1, 2}

(* ------------------------------------------------------------------ *)
(* File contents                                                        *)
(* ------------------------------------------------------------------ *)
Missing == [kind |-> "missing", val |-> <<>>]
Corrupt == [kind |-> "corrupt", val |-> <<>>]      \* text json.load rejects
ListFile(items) == [kind |-> "list", val |-> items] \* a JSON array
DictFile(d) == [kind |-> "dict", val |-> d]         \* a JSON object

Last(s) == s[Len(s)]
Front(s) == SubSeq(s, 1, Len(s) - 1)
Range(s) == {s[i] : i \in 1..Len(s)}
IsPrefix(s, t) == Len(s) <= Len(t) /\ SubSeq(t, 1, Len(s)) = s

\* dict.get(key, default)
Get(d, key, default) == IF key \in DOMAIN d THEN d[key] ELSE default

\* x or default, for the string an input() returns
OrDefault(x, default) == IF x = "" THEN default ELSE x

(* ------------------------------------------------------------------ *)
(* Text of the overwrite answer: input(...).strip().lower()             *)
(* ------------------------------------------------------------------ *)
\* str.lower(), on the characters the answers use
LowerChar(c) ==
    CASE c = "Y" -> "y"
      [] c = "E" -> "e"
      [] c = "S" -> "s"
      [] c = "N" -> "n"
      [] c = "O" -> "o"
      [] OTHER -> c

Lower(s) == [i \in 1..Len(s) |-> LowerChar(s[i])]

RECURSIVE LStrip(_)
LStrip(s) == IF s # <<>> /\ Head(s) = " " THEN LStrip(Tail(s)) ELSE s

RECURSIVE RStrip(_)
RStrip(s) == IF s # <<>> /\ Last(s) = " " THEN RStrip(Front(s)) ELSE s

\* str.strip()
Strip(s) == RStrip(LStrip(s))

Yes == <<"y", "e", "s">>

\* what the user can type at the overwrite prompt
OverwriteAnswers ==
    { Yes, <<" ", "Y", "E", "S", " ">>, <<"n", "o">> }

\* what the user can type at the four field prompts ("" is a bare Enter)
Answers ==
    [ token : {"", "tokB"},
      repo : {"", "ownerB/repoB"},
      tz : {"", "Mars/Olympus"},
      fn : {"", "alt.json", CONFIG_FILE},
      overwrite : OverwriteAnswers ]

\* the answers a call consumed, by prompt
Asked(ans, prompts) == [k \in prompts |-> ans[k]]

FieldPrompts == {"token", "repo", "tz", "fn"}

(* ------------------------------------------------------------------ *)
(* Config store                                                         *)
(* ------------------------------------------------------------------ *)
required_keys == {"GITHUB_TOKEN", "GITHUB_REPO", "TIMEZONE"}

NoExc == [type |-> "none", status |-> 0]
Exc(type) == [type |-> type, status |-> 0]

\* config.update({...}): the keys of the argument replace or extend the dict
Update(d, e) ==
    [k \in (DOMAIN d) \cup (DOMAIN e) |-> IF k \in DOMAIN e THEN e[k] ELSE d[k]]

\* initialize_config(force_setup), with the answers the user gives.
\* Result: the files after the call, the value returned, the exception
\* raised if any, the lines printed and the answers consumed.
initialize_config(fsys, force_setup, ans) ==
    LET file == fsys[CONFIG_FILE] IN
    IF file.kind = "missing" \/ force_setup
    THEN LET config == [ GITHUB_TOKEN |-> ans.token,
                         GITHUB_REPO |-> ans.repo,
                         FILENAME |-> OrDefault(ans.fn, DEFAULT_FILENAME),
                         TIMEZONE |-> OrDefault(ans.tz, DEFAULT_TIMEZONE) ]
         IN [ fs |-> [fsys EXCEPT ![CONFIG_FILE] = DictFile(config)],
              changed |-> TRUE,
              exc |-> NoExc,
              out |-> <<"No config file found. Let's set up the configuration.",
                        "Config file created">>,
              asked |-> Asked(ans, FieldPrompts) ]
    ELSE IF file.kind # "dict"
    THEN \* json.load(file) raises on text that is no JSON
         [ fs |-> fsys, changed |-> FALSE, exc |-> Exc("JSONDecodeError"),
           out |-> <<>>, asked |-> <<>> ]
    ELSE LET config == file.val IN
         IF \A key \in required_keys : key \in DOMAIN config
         THEN [ fs |-> fsys, changed |-> FALSE, exc |-> NoExc,
                out |-> <<>>, asked |-> <<>> ]
         ELSE IF Lower(Strip(ans.overwrite)) # Yes
         THEN [ fs |-> fsys, changed |-> FALSE, exc |-> NoExc,
                out |-> <<"Config file is missing some required keys.",
                          "Keeping the existing configuration.">>,
                asked |-> Asked(ans, {"overwrite"}) ]
         ELSE LET github_token == ans.token
                  github_repo == ans.repo
                  timezone_choice ==
                      OrDefault(ans.tz, Get(config, "TIMEZONE", DEFAULT_TIMEZONE))
                  filename_choice ==
                      OrDefault(ans.fn, Get(config, "FILENAME", DEFAULT_FILENAME))
                  updated == Update(config,
                                 [ GITHUB_TOKEN |-> github_token,
                                   GITHUB_REPO |-> github_repo,
                                   TIMEZONE |-> timezone_choice,
                                   FILENAME |-> filename_choice ])
              IN [ fs |-> [fsys EXCEPT ![CONFIG_FILE] = DictFile(updated)],
                   changed |-> TRUE,
                   exc |-> NoExc,
                   out |-> <<"Config file is missing some required keys.",
                             "Let's reconfigure the setup.",
                             "Config file updated">>,
                   asked |-> Asked(ans, FieldPrompts \cup {"overwrite"}) ]

\* get_bookmarks_file_path(config): the file name under CONFIG_DIR
get_bookmarks_file_path(config) == Get(config, "FILENAME", DEFAULT_FILENAME)

(* ------------------------------------------------------------------ *)
(* Bookmark store                                                       *)
(* ------------------------------------------------------------------ *)
\* load_bookmarks without the except clause: the JSONDecodeError propagates
load_bookmarks_uncaught(fsys, file_path) ==
    IF fsys[file_path].kind # "missing"
    THEN IF fsys[file_path].kind = "corrupt"
         THEN [ value |-> ListFile(<<>>),
                exc |-> Exc("JSONDecodeError"),
                out |-> <<>> ]
         ELSE [ value |-> fsys[file_path], exc |-> NoExc, out |-> <<>> ]
    ELSE [ value |-> ListFile(<<>>),
           exc |-> NoExc,
           out |-> <<"not found. Initializing with an empty list.">> ]

\* load_bookmarks(file_path): the value returned and the lines printed
load_bookmarks(fsys, file_path) ==
    IF fsys[file_path].kind # "missing"
    THEN IF fsys[file_path].kind = "corrupt"
         THEN [ value |-> ListFile(<<>>),
                exc |-> NoExc,
                out |-> <<"Error: Invalid JSON. Initializing with an empty list.">> ]
         ELSE [ value |-> fsys[file_path], exc |-> NoExc, out |-> <<>> ]
    ELSE [ value |-> ListFile(<<>>),
           exc |-> NoExc,
           out |-> <<"not found. Initializing with an empty list.">> ]

\* a save that re-reads the file and adds the new record to what is there
save_bookmarks_merge(fsys, file_path, bookmarks) ==
    [fsys EXCEPT ![file_path] =
        IF @.kind = "list" /\ bookmarks.val # <<>>
        THEN ListFile(Append(@.val, Last(bookmarks.val)))
        ELSE bookmarks]

\* save_bookmarks(file_path, bookmarks): the file is overwritten
save_bookmarks(fsys, file_path, bookmarks) ==
    [fsys EXCEPT ![file_path] = bookmarks]

\* datetime.isoformat() of a UTC instant, and its inverse
isoformat(instant) == <<instant, "+00:00">>
fromisoformat(text) == text[1]

\* add_bookmark that drops the --tags argument
add_bookmark_untagged(bookmark_url, tags, now) ==
    [ bookmarkURL |-> bookmark_url, tags |-> <<>>, date |-> isoformat(now) ]

\* add_bookmark(bookmark_url, tags)
add_bookmark(bookmark_url, tags, now) ==
    [ bookmarkURL |-> bookmark_url, tags |-> tags, date |-> isoformat(now) ]

\* bookmarks.insert(0, bookmark)
prepend(bookmarks, bookmark) == ListFile(<<bookmark>> \o bookmarks.val)

\* bookmarks.append(bookmark)
append(bookmarks, bookmark) == ListFile(Append(bookmarks.val, bookmark))

(* ------------------------------------------------------------------ *)
(* Tag index                                                            *)
(* ------------------------------------------------------------------ *)
\* positions of sep in the text s
SepPositions(s, sep) == {i \in 1..Len(s) : s[i] = sep}

Min(S) == CHOOSE x \in S : \A y \in S : x <= y

\* str.split(sep): the pieces between the separators, empty ones included
RECURSIVE split(_, _)
split(s, sep) ==
    IF SepPositions(s, sep) = {}
    THEN <<s>>
    ELSE LET i == Min(SepPositions(s, sep))
         IN <<SubSeq(s, 1, i - 1)>> \o split(SubSeq(s, i + 1, Len(s)), sep)

NonEmpty(tag) == tag # <<>>

\* tag for bookmark in bookmarks for tag in bookmark["tags"].split(",") if tag
RECURSIVE TagStream(_)
TagStream(bookmarks) ==
    IF bookmarks = <<>>
    THEN <<>>
    ELSE SelectSeq(split(Head(bookmarks).tags, ","), NonEmpty)
             \o TagStream(Tail(bookmarks))

\* Counter: one <<tag, count>> per distinct tag, in first-seen order
CounterAdd(counter, tag) ==
    IF \E i \in 1..Len(counter) : counter[i][1] = tag
    THEN LET i == CHOOSE j \in 1..Len(counter) : counter[j][1] = tag
         IN [counter EXCEPT ![i] = <<tag, counter[i][2] + 1>>]
    ELSE Append(counter, <<tag, 1>>)

RECURSIVE Counter(_)
Counter(stream) ==
    IF stream = <<>>
    THEN <<>>
    ELSE CounterAdd(Counter(Front(stream)), Last(stream))

\* the same step with a strict comparison: item overtakes its equals
InsertBeforeEquals(sorted, item) ==
    LET k == Cardinality({i \in 1..Len(sorted) : sorted[i][2] > item[2]})
    IN SubSeq(sorted, 1, k) \o <<item>> \o SubSeq(sorted, k + 1, Len(sorted))

\* one step of the stable descending sort: item goes after every element
\* whose count is not smaller
InsertByCount(sorted, item) ==
    LET k == Cardinality({i \in 1..Len(sorted) : sorted[i][2] >= item[2]})
    IN SubSeq(sorted, 1, k) \o <<item>> \o SubSeq(sorted, k + 1, Len(sorted))

\* Counter.most_common(): sorted(items, key=count, reverse=True), stable
RECURSIVE most_common(_)
most_common(items) ==
    IF items = <<>>
    THEN <<>>
    ELSE InsertByCount(most_common(Front(items)), Last(items))

\* list_tags(bookmarks): the <<tag, count>> lines printed, in order
list_tags(bookmarks) == most_common(Counter(TagStream(bookmarks)))

(* ------------------------------------------------------------------ *)
(* Presenter                                                            *)
(* ------------------------------------------------------------------ *)
\* pytz.timezone(tz_name), with the fallback to UTC
ResolveTimezone(tz_name) ==
    IF tz_name \in KnownTimezones THEN tz_name ELSE "UTC"

\* list_urls(bookmarks, tz_name): the rows of the table and the lines printed
list_urls(bookmarks, tz_name) ==
    [ table |->
          [ i \in 1..Len(bookmarks) |->
              << [ instant |-> fromisoformat(bookmarks[i].date),
                   zone |-> ResolveTimezone(tz_name) ],
                 bookmarks[i].bookmarkURL,
                 bookmarks[i].tags >> ],
      out |-> IF tz_name \in KnownTimezones
              THEN <<>>
              ELSE <<"Error: Invalid timezone. Falling back to UTC.">> ]

(* ------------------------------------------------------------------ *)
(* Remote API                                                           *)
(* ------------------------------------------------------------------ *)
\* exceptions the GitHub client raises: str(e) starts with the status
NotFound == [type |-> "UnknownObjectException", status |-> 404]
BadCredentials == [type |-> "BadCredentialsException", status |-> 401]
Conflict == [type |-> "GithubException", status |-> 409]
NetworkError == [type |-> "ConnectionError", status |-> 0]

RemoteErrors == {NotFound, BadCredentials, Conflict, NetworkError}

\* the call went through
Ok == [type |-> "ok", status |-> 200]

\* one call of the remote API, as push_to_github issued it
Call(op, path, content, sha, result) ==
    [op |-> op, path |-> path, content |-> content, sha |-> sha, result |-> result]

\* "404" in str(e)
Has404(e) == e.status = 404

\* the blob sha of a file: a function of its content alone
Sha(content) == content

(* ------------------------------------------------------------------ *)
(* An invocation of main()                                              *)
(* ------------------------------------------------------------------ *)
\* the command lines argparse accepts
Invocations ==
    { [command |-> "add", url |-> "http://example.com", tags |-> t] :
          t \in { <<>>, <<"x", ",", "y">> } }
    \cup { [command |-> c, url |-> "", tags |-> <<>>] :
               c \in {"tags", "urls", "setup"} }

\* the locals of main() before its first statement
Fresh(args) ==
    [ pc |-> IF args.command = "setup" THEN "setup" ELSE "init",
      command |-> args.command,
      url |-> args.url,
      tags |-> args.tags,
      config |-> <<>>,          \* config = load_config()
      bookmarks |-> Missing,    \* bookmarks = load_bookmarks(file_path)
      content |-> Missing,      \* content = file.read() in push_to_github
      contents |-> Missing,     \* contents = repo.get_contents(...)
      out |-> <<>>,             \* lines printed
      table |-> <<>>,           \* rows printed by list_tags / list_urls
      trace |-> <<>>,           \* calls made, in order
      api |-> <<>>,             \* calls of the remote API, in order
      asked |-> <<>>,           \* answers read from the prompts
      exc |-> NoExc ]           \* the uncaught exception, if any

Idle == [Fresh([command |-> "none", url |-> "", tags |-> <<>>]) EXCEPT !.pc = "idle"]

Ended(p) == proc[p].pc \in {"done", "crashed"}

\* the process ends with an uncaught exception
Raise(rec, e) == [rec EXCEPT !.pc = "crashed", !.exc = e]

\* main() is entered with a parsed command line            (lines 168-186)
Begin(p, args) ==
    /\ proc[p].pc = "idle" \/ Ended(p)
    /\ runs < MaxRuns
    /\ proc' = [proc EXCEPT ![p] = Fresh(args)]
    /\ runs' = runs + 1
    /\ UNCHANGED <<fs, remote, clock>>

Start(p) == \E args \in Invocations : Begin(p, args)

\* the same, for an add command
StartAdd(p) ==
    \E args \in {a \in Invocations : a.command = "add"} : Begin(p, args)

\* the setup branch without its return: main() goes on after the setup
AfterSetupNoReturn(rec, changed) ==
    IF changed
    THEN [rec EXCEPT !.pc = "init", !.out = Append(@, "Setup complete.")]
    ELSE [rec EXCEPT !.pc = "init"]

\* if initialize_config(force_setup=True): print(...); return
AfterSetup(rec, changed) ==
    IF changed
    THEN [rec EXCEPT !.pc = "done", !.out = Append(@, "Setup complete.")]
    ELSE [rec EXCEPT !.pc = "init"]

\* if args.command == "setup": if initialize_config(force_setup=True): return
SetupCommand(p) ==
    /\ proc[p].pc = "setup"
    /\ \E ans \in Answers :
         LET r == initialize_config(fs, TRUE, ans)
             rec == [proc[p] EXCEPT !.trace = Append(@, "initialize_config"),
                                    !.out = @ \o r.out,
                                    !.asked = r.asked]
         IN /\ fs' = r.fs
            /\ proc' = [proc EXCEPT ![p] =
                 IF r.exc # NoExc THEN Raise(rec, r.exc)
                 ELSE AfterSetup(rec, r.changed)]
    /\ UNCHANGED <<remote, clock, runs>>

\* if initialize_config(force_setup=False): print(...)
EnsureConfig(p) ==
    /\ proc[p].pc = "init"
    /\ \E ans \in Answers :
         LET r == initialize_config(fs, FALSE, ans)
             rec == [proc[p] EXCEPT !.trace = Append(@, "initialize_config"),
                                    !.out = @ \o r.out,
                                    !.asked = r.asked]
         IN /\ fs' = r.fs
            /\ proc' = [proc EXCEPT ![p] =
                 IF r.exc # NoExc THEN Raise(rec, r.exc)
                 ELSE IF r.changed
                 THEN [rec EXCEPT !.pc = "load_config",
                                  !.out = Append(@, "Configuration already exists and is valid.")]
                 ELSE [rec EXCEPT !.pc = "load_config"]]
    /\ UNCHANGED <<remote, clock, runs>>

\* config = load_config()
LoadConfig(p) ==
    /\ proc[p].pc = "load_config"
    /\ LET rec == [proc[p] EXCEPT !.trace = Append(@, "load_config")]
       IN proc' = [proc EXCEPT ![p] =
            IF fs[CONFIG_FILE].kind = "missing"
            THEN Raise(rec, Exc("FileNotFoundError"))
            ELSE IF fs[CONFIG_FILE].kind = "corrupt"
            THEN Raise(rec, Exc("JSONDecodeError"))
            ELSE [rec EXCEPT !.pc = "load_bookmarks",
                             !.config = fs[CONFIG_FILE].val]]
    /\ UNCHANGED <<fs, remote, clock, runs>>

\* file_path = get_bookmarks_file_path(config); bookmarks = load_bookmarks(file_path)
LoadBookmarks(p) ==
    /\ proc[p].pc = "load_bookmarks"
    /\ LET r == load_bookmarks(fs, get_bookmarks_file_path(proc[p].config))
           rec == [proc[p] EXCEPT !.trace = Append(@, "load_bookmarks"),
                                  !.out = @ \o r.out]
       IN proc' = [proc EXCEPT ![p] =
            IF r.exc # NoExc THEN Raise(rec, r.exc)
            ELSE [rec EXCEPT !.pc = "dispatch", !.bookmarks = r.value]]
    /\ UNCHANGED <<fs, remote, clock, runs>>

\* add: bookmark = add_bookmark(args.url, args.tags); bookmarks.append(bookmark)
AddBookmark(p) ==
    /\ proc[p].pc = "dispatch"
    /\ proc[p].command = "add"
    /\ LET bookmark == add_bookmark(proc[p].url, proc[p].tags, clock)
           rec == [proc[p] EXCEPT !.trace = Append(@, "add_bookmark")]
       IN proc' = [proc EXCEPT ![p] =
            IF proc[p].bookmarks.kind # "list"
            THEN Raise(rec, Exc("AttributeError"))   \* a dict has no append
            ELSE [rec EXCEPT !.pc = "save",
                             !.bookmarks = append(@, bookmark)]]
    /\ clock' = clock + 1
    /\ UNCHANGED <<fs, remote, runs>>

\* save_bookmarks(file_path, bookmarks)
SaveBookmarks(p) ==
    /\ proc[p].pc = "save"
    /\ fs' = save_bookmarks(fs, get_bookmarks_file_path(proc[p].config),
                            proc[p].bookmarks)
    /\ proc' = [proc EXCEPT ![p].pc = "push",
                            ![p].trace = Append(@, "save_bookmarks")]
    /\ UNCHANGED <<remote, clock, runs>>

\* the last statement of the add branch: print(...), then main() returns
Finish(rec) ==
    [rec EXCEPT !.pc = "done",
                !.out = Append(@, "Bookmark added and pushed to GitHub.")]

\* the except clause of push_to_github, entered with the exception e
Except(rec, e) ==
    IF Has404(e)
    THEN [rec EXCEPT !.pc = "push_create",
                     !.out = Append(@, "File not found, creating a new file.")]
    ELSE Finish([rec EXCEPT !.out = Append(@, "GitHub error occurred")])

\* push_to_github: g = Github(token); repo = g.get_repo(config["GITHUB_REPO"])
PushGetRepo(p) ==
    /\ proc[p].pc = "push"
    /\ \E r \in {Ok} \cup RemoteErrors :
         LET rec == [proc[p] EXCEPT !.trace = Append(@, "push_to_github")]
             config == proc[p].config
         IN proc' = [proc EXCEPT ![p] =
              IF "GITHUB_TOKEN" \notin DOMAIN config
                   \/ "GITHUB_REPO" \notin DOMAIN config
              THEN Raise(rec, Exc("KeyError"))
              ELSE LET called == [rec EXCEPT !.api = Append(@,
                           Call("get_repo", config["GITHUB_REPO"], Missing, Missing, r))]
                   IN IF r = Ok
                      THEN [called EXCEPT !.pc = "push_read"]
                      ELSE Raise(called, r)]
    /\ UNCHANGED <<fs, remote, clock, runs>>

\* with open(file_path, "r") as file: content = file.read()
PushReadFile(p) ==
    /\ proc[p].pc = "push_read"
    /\ LET file == fs[get_bookmarks_file_path(proc[p].config)]
       IN proc' = [proc EXCEPT ![p] =
            IF file.kind = "missing"
            THEN Raise(proc[p], Exc("FileNotFoundError"))
            ELSE [proc[p] EXCEPT !.pc = "push_get", !.content = file]]
    /\ UNCHANGED <<fs, remote, clock, runs>>

\* contents = repo.get_contents(config["FILENAME"])
PushGetContents(p) ==
    /\ proc[p].pc = "push_get"
    /\ LET config == proc[p].config IN
       IF "FILENAME" \notin DOMAIN config
       THEN \* the KeyError is raised inside the try and caught
            proc' = [proc EXCEPT ![p] = Except(proc[p], Exc("KeyError"))]
       ELSE \E r \in {Ok} \cup RemoteErrors :
              LET name == config["FILENAME"]
                  called == [proc[p] EXCEPT !.api = Append(@,
                      Call("get_contents", name, Missing,
                           IF r = Ok THEN Sha(remote[name]) ELSE Missing, r))]
              IN /\ r = Ok => remote[name].kind # "missing"
                 /\ proc' = [proc EXCEPT ![p] =
                      IF r = Ok
                      THEN [called EXCEPT !.pc = "push_update",
                                          !.contents = Sha(remote[name])]
                      ELSE Except(called, r)]
    /\ UNCHANGED <<fs, remote, clock, runs>>

\* repo.update_file(contents.path, "Update bookmarks", content, contents.sha)
PushUpdateFile(p) ==
    /\ proc[p].pc = "push_update"
    /\ \E r \in {Ok} \cup RemoteErrors :
         LET name == proc[p].config["FILENAME"]
             called == [proc[p] EXCEPT !.api = Append(@,
                 Call("update_file", name, proc[p].content, proc[p].contents, r))]
         IN /\ r = Ok => /\ remote[name].kind # "missing"
                         /\ Sha(remote[name]) = proc[p].contents
            /\ remote' = IF r = Ok
                         THEN [remote EXCEPT ![name] = proc[p].content]
                         ELSE remote
            /\ proc' = [proc EXCEPT ![p] =
                 IF r = Ok
                 THEN Finish([called EXCEPT !.out = Append(@, "Updated file")])
                 ELSE Except(called, r)]
    /\ UNCHANGED <<fs, clock, runs>>

\* in the except clause: repo.create_file(config["FILENAME"], "Add bookmarks", content)
PushCreateFile(p) ==
    /\ proc[p].pc = "push_create"
    /\ \E r \in {Ok} \cup RemoteErrors :
         LET name == proc[p].config["FILENAME"]
             called == [proc[p] EXCEPT !.api = Append(@,
                 Call("create_file", name, proc[p].content, Missing, r))]
         IN /\ r = Ok => remote[name].kind = "missing"
            /\ remote' = IF r = Ok
                         THEN [remote EXCEPT ![name] = proc[p].content]
                         ELSE remote
            /\ proc' = [proc EXCEPT ![p] =
                 IF r = Ok
                 THEN Finish([called EXCEPT !.out = Append(@, "Created file")])
                 ELSE Raise(called, r)]
    /\ UNCHANGED <<fs, clock, runs>>

\* tags: list_tags(bookmarks)
ListTags(p) ==
    /\ proc[p].pc = "dispatch"
    /\ proc[p].command = "tags"
    /\ LET rec == [proc[p] EXCEPT !.trace = Append(@, "list_tags")]
           bookmarks == proc[p].bookmarks
       IN proc' = [proc EXCEPT ![p] =
            IF bookmarks.kind = "dict" /\ DOMAIN bookmarks.val # {}
            THEN Raise(rec, Exc("TypeError"))   \* a key of the dict is a str
            ELSE [rec EXCEPT !.pc = "done",
                             !.out = Append(@, "Tags sorted by count:"),
                             !.table = list_tags(bookmarks.val)]]
    /\ UNCHANGED <<fs, remote, clock, runs>>

\* urls: list_urls(bookmarks, config["TIMEZONE"])
ListUrls(p) ==
    /\ proc[p].pc = "dispatch"
    /\ proc[p].command = "urls"
    /\ LET rec == [proc[p] EXCEPT !.trace = Append(@, "list_urls")]
           bookmarks == proc[p].bookmarks
           config == proc[p].config
       IN proc' = [proc EXCEPT ![p] =
            IF "TIMEZONE" \notin DOMAIN config
            THEN Raise(rec, Exc("KeyError"))
            ELSE IF bookmarks.kind = "dict" /\ DOMAIN bookmarks.val # {}
            THEN Raise(rec, Exc("TypeError"))
            ELSE LET r == list_urls(bookmarks.val, config["TIMEZONE"])
                 IN [rec EXCEPT !.pc = "done",
                                !.out = @ \o r.out,
                                !.table = r.table]]
    /\ UNCHANGED <<fs, remote, clock, runs>>

(* ------------------------------------------------------------------ *)
(* Specifications                                                       *)
(* ------------------------------------------------------------------ *)
\* a bookmark saved by an earlier invocation
OldBookmark == add_bookmark("http://old.example", <<"x">>, 0)

\* a config file written by an earlier version or edited by hand
OldConfig ==
    [ GITHUB_TOKEN |-> "tokA", GITHUB_REPO |-> "ownerA/repoA",
      FILENAME |-> "alt.json", TIMEZONE |-> "Asia/Kolkata", EDITOR |-> "vi" ]

Restrict(d, keys) == [k \in keys |-> d[k]]

\* absent, unreadable, complete, or missing any subset of the four keys
ConfigFiles ==
    {Missing, Corrupt}
    \cup { DictFile(Restrict(OldConfig, keys \cup {"EDITOR"})) :
               keys \in SUBSET (ConfigKeys \ {"EDITOR"}) }

BookmarkFiles == {Missing, Corrupt, ListFile(<<OldBookmark>>)}

RemoteFiles == {Missing, ListFile(<<OldBookmark>>)}

Init ==
    /\ fs \in [FileNames -> ConfigFiles \cup BookmarkFiles]
    /\ fs[CONFIG_FILE] \in ConfigFiles
    /\ fs[DEFAULT_FILENAME] = Missing
    /\ fs["alt.json"] \in BookmarkFiles
    /\ remote \in [FileNames -> RemoteFiles]
    /\ remote[CONFIG_FILE] = Missing
    /\ remote[DEFAULT_FILENAME] = remote["alt.json"]
    /\ proc = [p \in Procs |-> Idle]
    /\ clock = 1
    /\ runs = 0

Main(p) ==
    \/ SetupCommand(p)
    \/ EnsureConfig(p)
    \/ LoadConfig(p)
    \/ LoadBookmarks(p)
    \/ AddBookmark(p)
    \/ SaveBookmarks(p)
    \/ PushGetRepo(p)
    \/ PushReadFile(p)
    \/ PushGetContents(p)
    \/ PushUpdateFile(p)
    \/ PushCreateFile(p)
    \/ ListTags(p)
    \/ ListUrls(p)

\* invocations one after the other
Next == Start(1) \/ Main(1)

Spec == Init /\ [][Next]_vars

\* two add commands at a time, on a config that is complete
InitConc ==
    /\ fs \in [FileNames -> ConfigFiles \cup BookmarkFiles]
    /\ fs[CONFIG_FILE] = DictFile(OldConfig)
    /\ fs[DEFAULT_FILENAME] = Missing
    /\ fs["alt.json"] \in BookmarkFiles
    /\ remote \in [FileNames -> RemoteFiles]
    /\ remote[CONFIG_FILE] = Missing
    /\ remote[DEFAULT_FILENAME] = Missing
    /\ proc = [p \in Procs |-> Idle]
    /\ clock = 1
    /\ runs = 0

NextConc ==
    \E p \in Procs :
        \/ StartAdd(p)
        \/ EnsureConfig(p)
        \/ LoadConfig(p)
        \/ LoadBookmarks(p)
        \/ AddBookmark(p)
        \/ SaveBookmarks(p)
        \/ PushGetRepo(p)
        \/ PushReadFile(p)
        \/ PushGetContents(p)
        \/ PushUpdateFile(p)
        \/ PushCreateFile(p)

SpecConc == InitConc /\ [][NextConc]_vars

\* list_tags on every small collection: the state of a tags command that
\* has just loaded its bookmarks
TagAlphabet == {"a", ","}

TagStrings == UNION {[1..n -> TagAlphabet] : n \in 0..MaxTagLen}

Collections ==
    UNION { { [i \in 1..n |-> add_bookmark("http://example.com", t[i], i)] :
                t \in [1..n -> TagStrings] } : n \in 0..MaxBookmarks }

InitTags ==
    /\ \E items \in Collections :
         /\ fs = [name \in FileNames |->
                    IF name = CONFIG_FILE THEN DictFile(OldConfig)
                    ELSE IF name = "alt.json" THEN ListFile(items)
                    ELSE Missing]
         /\ proc = [p \in Procs |->
                IF p = 1
                THEN [Fresh([command |-> "tags", url |-> "", tags |-> <<>>])
                        EXCEPT !.pc = "dispatch",
                               !.config = OldConfig,
                               !.bookmarks = ListFile(items),
                               !.trace = <<"initialize_config", "load_config",
                                           "load_bookmarks">>]
                ELSE Idle]
    /\ remote = [name \in FileNames |-> Missing]
    /\ clock = MaxBookmarks + 1
    /\ runs = 1

NextTags == ListTags(1)

SpecTags == InitTags /\ [][NextTags]_vars

(* ------------------------------------------------------------------ *)
(* Properties                                                           *)
(* ------------------------------------------------------------------ *)
\* the bookmark file the invocation p works on
Path(p) == get_bookmarks_file_path(proc[p].config)

Called(p, name) == name \in Range(proc[p].trace)

\* the records of a bookmark file, none if it is absent or unreadable
Items(file) == IF file.kind = "list" THEN file.val ELSE <<>>

\* the non-empty tokens of a tags text, each as <<first, last>>: a maximal
\* run of characters that holds no comma
TokenSpans(text) ==
    { <<a, b>> \in (1..Len(text)) \X (1..Len(text)) :
        /\ a <= b
        /\ \A k \in a..b : text[k] # ","
        /\ a = 1 \/ text[a - 1] = ","
        /\ b = Len(text) \/ text[b + 1] = "," }

\* the occurrences of a tag in a collection, each as <<bookmark, first, last>>
Occurrences(items, tag) ==
    UNION { { <<i, sp[1], sp[2]>> :
                sp \in { t \in TokenSpans(items[i].tags) :
                            SubSeq(items[i].tags, t[1], t[2]) = tag } } :
              i \in 1..Len(items) }

AllTags(items) ==
    UNION { { SubSeq(items[i].tags, sp[1], sp[2]) : sp \in TokenSpans(items[i].tags) } :
              i \in 1..Len(items) }

\* o1 is met before o2 when the bookmarks are read in order, left to right
Before(o1, o2) == o1[1] < o2[1] \/ (o1[1] = o2[1] /\ o1[2] < o2[2])

FirstSeen(items, tag) ==
    CHOOSE o \in Occurrences(items, tag) :
        \A o2 \in Occurrences(items, tag) : o2 = o \/ Before(o, o2)

RECURSIVE SumCounts(_)
SumCounts(table) ==
    IF table = <<>> THEN 0 ELSE Head(table)[2] + SumCounts(Tail(table))

TagsOf(texts) == [i \in 1..Len(texts) |-> add_bookmark("u", texts[i], i)]

\* the bookmarks "a,b", "b,c", "a"
ExampleBookmarks ==
    TagsOf(<< <<"a", ",", "b">>, <<"b", ",", "c">>, <<"a">> >>)

CountTagsOf(items, table) ==
    /\ {table[k][1] : k \in 1..Len(table)} = AllTags(items)
    /\ \A k, l \in 1..Len(table) : k # l => table[k][1] # table[l][1]
    /\ \A k \in 1..Len(table) :
         table[k][2] = Cardinality(Occurrences(items, table[k][1]))
    /\ \A k, l \in 1..Len(table) :
         k < l => \/ table[k][2] > table[l][2]
                  \/ /\ table[k][2] = table[l][2]
                     /\ Before(FirstSeen(items, table[k][1]),
                               FirstSeen(items, table[l][1]))

\* C9: list_tags prints, for each non-empty token of the tags fields split
\* on ",", the number of its occurrences over all bookmarks, in descending
\* order of count, equal counts in the order the tags were first met; the
\* bookmarks "a,b", "b,c", "a" give a:2, b:2, c:1, five occurrences in all.
C9_CountTags ==
    /\ \A p \in Procs :
         (proc[p].command = "tags" /\ proc[p].pc = "done"
              /\ proc[p].bookmarks.kind = "list")
           => CountTagsOf(proc[p].bookmarks.val, proc[p].table)
    /\ list_tags(ExampleBookmarks) = << <<<<"a">>, 2>>, <<<<"b">>, 2>>, <<<<"c">>, 1>> >>
    /\ SumCounts(list_tags(ExampleBookmarks)) = 5

\* a tags command has printed two tags of equal count in the order they
\* were first met, after discarding the empty token of ",a"
C9_Witness ==
    /\ proc[1].command = "tags"
    /\ proc[1].pc = "done"
    /\ Len(proc[1].bookmarks.val) = 2
    /\ proc[1].bookmarks.val[1].tags = <<"a", "a">>
    /\ proc[1].bookmarks.val[2].tags = <<",", "a">>
    /\ proc[1].table = << <<<<"a", "a">>, 1>>, <<<<"a">>, 1>> >>

\* the file a command started now would load its bookmarks from
CurrentName == get_bookmarks_file_path(fs[CONFIG_FILE].val)

\* C1, as stated: whatever the commands do, the collection the tool loads
\* only grows at its end; every earlier persisted collection is a prefix
\* of the one a later command loads.
C1_LoadedCollectionOnlyGrows ==
    [][ (fs[CONFIG_FILE].kind = "dict" /\ fs'[CONFIG_FILE].kind = "dict")
          => IsPrefix(Items(fs[CurrentName]), Items(fs'[CurrentName'])) ]_vars

\* C1, amended: each bookmark file is append-only.  A file that holds a
\* collection keeps holding one, of which the earlier one is a prefix, and
\* as long as FILENAME is not changed the collection the tool loads has
\* every earlier persisted collection as a prefix.
C1_EachFileAppendOnly ==
    [][ /\ \A name \in FileNames :
             fs[name].kind = "list"
               => /\ fs'[name].kind = "list"
                  /\ IsPrefix(fs[name].val, fs'[name].val)
        /\ (fs[CONFIG_FILE].kind = "dict" /\ fs'[CONFIG_FILE].kind = "dict"
              /\ CurrentName' = CurrentName)
             => IsPrefix(Items(fs[CurrentName]), Items(fs'[CurrentName'])) ]_vars

\* an add has extended a collection that was not empty
C1_Witness ==
    /\ proc[1].command = "add"
    /\ Called(1, "save_bookmarks")
    /\ fs[Path(1)].kind = "list"
    /\ Len(fs[Path(1)].val) >= 2
    /\ fs[Path(1)].val[1] = OldBookmark

\* C2, as stated: no failure of the remote API other than the file not
\* being found leaves push_to_github as an uncaught exception.
C2_PushFailuresNeverPropagate ==
    \A p \in Procs :
        proc[p].pc = "crashed" => proc[p].exc \notin RemoteErrors \ {NotFound}

FourKeys == {"GITHUB_TOKEN", "GITHUB_REPO", "FILENAME", "TIMEZONE"}

\* C3, as stated: a command other than setup is at its dispatch step only
\* with a config that holds all four fields.
C3_DispatchNeedsFourFields ==
    \A p \in Procs :
        (proc[p].pc = "dispatch" /\ proc[p].command # "setup")
          => /\ FourKeys \subseteq DOMAIN proc[p].config
             /\ FourKeys \subseteq DOMAIN fs[CONFIG_FILE].val

AddTrace ==
    << "initialize_config", "load_config", "load_bookmarks",
       "add_bookmark", "save_bookmarks", "push_to_github" >>

ApiCalls(p, op) == {i \in 1..Len(proc[p].api) : proc[p].api[i].op = op}

\* C4: an add that reaches dispatch on n records writes a file of n+1
\* records whose last one carries the url and the tags given, and then
\* attempts the push once: save before push, no retry, no second save, no
\* rollback.
C4_AddSavesThenPushesOnce ==
    /\ [](\A p \in Procs :
            proc[p].command = "add" =>
              /\ IsPrefix(proc[p].trace, AddTrace)
              /\ (proc[p].pc = "dispatch" /\ proc[p].bookmarks.kind = "list")
                   => proc[p].bookmarks.val = Items(fs[Path(p)])
              /\ Called(p, "save_bookmarks")
                   => /\ fs[Path(p)] = proc[p].bookmarks
                      /\ Last(fs[Path(p)].val).bookmarkURL = proc[p].url
                      /\ Last(fs[Path(p)].val).tags = proc[p].tags
              /\ (Ended(p) /\ Called(p, "save_bookmarks"))
                   => Called(p, "push_to_github")
              /\ proc[p].pc = "done" => proc[p].trace = AddTrace
              /\ \A op \in {"get_repo", "get_contents", "update_file", "create_file"} :
                   Cardinality(ApiCalls(p, op)) <= 1)
    /\ [][ \A p \in Procs :
             (proc[p].pc = "dispatch" /\ proc[p].command = "add"
                /\ proc[p].bookmarks.kind = "list")
               => /\ proc'[p].pc = "save"
                  /\ Len(proc'[p].bookmarks.val) = Len(proc[p].bookmarks.val) + 1
                  /\ Front(proc'[p].bookmarks.val) = proc[p].bookmarks.val ]_vars
    /\ [][ \A p \in Procs :
             proc[p].pc = "save"
               => /\ fs'[Path(p)] = proc[p].bookmarks
                  /\ Front(fs'[Path(p)].val) = Items(fs[Path(p)])
                  /\ proc'[p].pc = "push" ]_vars

\* an add on a collection of one record has ended after its push
C4_Witness ==
    /\ proc[1].command = "add"
    /\ proc[1].pc = "done"
    /\ proc[1].tags = <<"x", ",", "y">>
    /\ Len(fs[Path(1)].val) = 2
    /\ Cardinality(ApiCalls(1, "update_file")) = 1

\* the fetch of one push and what it reported
Fetched(p) == \E i \in ApiCalls(p, "get_contents") : proc[p].api[i].result = Ok
FetchNotFound(p) ==
    \E i \in ApiCalls(p, "get_contents") : proc[p].api[i].result = NotFound

\* C5, as stated: a push issues an update, with the sha the fetch returned
\* and the full local content, exactly when the fetch succeeded, and a
\* create with the same content exactly when the fetch reported not-found;
\* never a create after a fetch that found the file, never both.
C5_UpdateIffFetchedCreateIffNotFound ==
    \A p \in Procs :
        /\ \A i \in ApiCalls(p, "update_file") :
             /\ proc[p].api[i].content = proc[p].content
             /\ \E j \in ApiCalls(p, "get_contents") :
                  /\ j < i
                  /\ proc[p].api[j].result = Ok
                  /\ proc[p].api[j].sha = proc[p].api[i].sha
        /\ \A i \in ApiCalls(p, "create_file") :
             proc[p].api[i].content = proc[p].content
        /\ ApiCalls(p, "create_file") # {} => (FetchNotFound(p) /\ ~Fetched(p))
        /\ ~(ApiCalls(p, "update_file") # {} /\ ApiCalls(p, "create_file") # {})
        /\ Ended(p) =>
             /\ Fetched(p) => ApiCalls(p, "update_file") # {}
             /\ FetchNotFound(p) => ApiCalls(p, "create_file") # {}

\* the config key each prompt of the reconfiguration sets
KeyOf(prompt) ==
    CASE prompt = "token" -> "GITHUB_TOKEN"
      [] prompt = "repo" -> "GITHUB_REPO"
      [] prompt = "tz" -> "TIMEZONE"
      [] prompt = "fn" -> "FILENAME"

\* the call of initialize_config(False) by p re-prompted after a "yes"
Reconfigured(p) ==
    /\ proc[p].pc = "init"
    /\ proc'[p].pc = "load_config"
    /\ "overwrite" \in DOMAIN proc'[p].asked
    /\ Lower(Strip(proc'[p].asked["overwrite"])) = Yes

\* C6, as stated: after an accepted overwrite every field is re-prompted
\* with its current value as the default: an empty answer keeps the value
\* the existing config had, the other keys of the old config are kept, the
\* result is written and the call returns true.
C6_EmptyAnswerKeepsCurrentValue ==
    [][ \A p \in Procs :
          Reconfigured(p) =>
            LET old == fs[CONFIG_FILE].val
                new == fs'[CONFIG_FILE].val
                asked == proc'[p].asked
            IN /\ FieldPrompts \subseteq DOMAIN asked
               /\ fs'[CONFIG_FILE].kind = "dict"
               /\ DOMAIN new = DOMAIN old \cup FourKeys
               /\ \A k \in DOMAIN old \ FourKeys : new[k] = old[k]
               /\ \A f \in FieldPrompts :
                    /\ asked[f] # "" => new[KeyOf(f)] = asked[f]
                    /\ (asked[f] = "" /\ KeyOf(f) \in DOMAIN old)
                         => new[KeyOf(f)] = old[KeyOf(f)]
               /\ Last(proc'[p].out) = "Configuration already exists and is valid."
      ]_vars

\* the config the first prompts of initialize_config produce
PromptedConfig(asked) ==
    [ GITHUB_TOKEN |-> asked["token"],
      GITHUB_REPO |-> asked["repo"],
      FILENAME |-> IF asked["fn"] = "" THEN "bookmarks.json" ELSE asked["fn"],
      TIMEZONE |-> IF asked["tz"] = "" THEN "UTC" ELSE asked["tz"] ]

\* C7: setup rewrites the config file from fresh prompts and returns: no
\* second initialize_config, no load_config, no load or save of bookmarks,
\* no push.
C7_SetupOnlyReconfigures ==
    /\ [](\A p \in Procs :
            proc[p].command = "setup" =>
              /\ proc[p].pc \in {"setup", "done"}
              /\ IsPrefix(proc[p].trace, <<"initialize_config">>)
              /\ proc[p].api = <<>>
              /\ proc[p].config = <<>>
              /\ proc[p].bookmarks = Missing
              /\ proc[p].pc = "done" =>
                   /\ proc[p].trace = <<"initialize_config">>
                   /\ fs[CONFIG_FILE] = DictFile(PromptedConfig(proc[p].asked)))
    /\ [][ \A p \in Procs :
             (proc[p].command = "setup" /\ ~Ended(p)) =>
               /\ remote' = remote
               /\ \A name \in FileNames \ {CONFIG_FILE} : fs'[name] = fs[name] ]_vars

\* a setup has ended on a config file that held other keys and values
C7_Witness ==
    /\ proc[1].command = "setup"
    /\ proc[1].pc = "done"
    /\ proc[1].asked["token"] = ""
    /\ fs[CONFIG_FILE].val["GITHUB_TOKEN"] = ""
    /\ "EDITOR" \notin DOMAIN fs[CONFIG_FILE].val
    /\ runs = 2

BothLoadedBeforeEitherSaved(p, q) ==
    /\ p # q
    /\ proc[p].command = "add" /\ proc[q].command = "add"
    /\ Called(p, "save_bookmarks") /\ Called(q, "save_bookmarks")
    /\ Path(p) = Path(q)
    /\ Front(proc[p].bookmarks.val) = Front(proc[q].bookmarks.val)

\* an error a process reported: an uncaught exception or a printed error
ReportedError(p) ==
    \/ proc[p].pc = "crashed"
    \/ "GitHub error occurred" \in Range(proc[p].out)

\* C10: when two concurrent add commands both load before either saves,
\* the file ends up with the collection of one of them: one of the two new
\* records and not the other; nothing in the store detects it, neither
\* load nor save fails.
C10_ConcurrentAddsLoseOneRecord ==
    \A p, q \in Procs :
        BothLoadedBeforeEitherSaved(p, q) =>
          /\ fs[Path(p)] \in {proc[p].bookmarks, proc[q].bookmarks}
          /\ Len(fs[Path(p)].val) = Len(Front(proc[p].bookmarks.val)) + 1
          /\ ~({Last(proc[p].bookmarks.val), Last(proc[q].bookmarks.val)}
                  \subseteq Range(fs[Path(p)].val))
          /\ Last(proc[p].bookmarks.val) # Last(proc[q].bookmarks.val)
          /\ \A r \in {p, q} :
               proc[r].pc = "crashed" => proc[r].exc \in RemoteErrors

\* both adds have ended normally and reported no error, and the file holds
\* the old record and the record of one of them only
C10_Witness ==
    /\ BothLoadedBeforeEitherSaved(1, 2)
    /\ proc[1].pc = "done" /\ proc[2].pc = "done"
    /\ ~ReportedError(1) /\ ~ReportedError(2)
    /\ Len(proc[1].bookmarks.val) = 2
    /\ fs[Path(1)].val = <<OldBookmark, Last(proc[2].bookmarks.val)>>
    /\ Last(proc[1].bookmarks.val) \notin Range(fs[Path(1)].val)

====
